---- MODULE Spec2Model ----
(***************************************************************************)
(* Model of src/src/bball_ref.py: get_table (the stat table extractor) and *)
(* get_all_players (the roster fetcher).                                   *)
(*                                                                         *)
(* Python values are modelled as follows.  An optional value (None or an   *)
(* object) is a sequence of length 0 or 1.  A str whose characters matter  *)
(* (names, header text) is a sequence of one-character strings.  An int is *)
(* <<"int", n>> and a bool is <<"bool", 0 or 1>>, so that the two types    *)
(* stay distinct.                                                          *)
(***************************************************************************)
EXTENDS Integers, Sequences, FiniteSets, TLC

\* get_table: the document, the position in the function, its locals and
\* what it returned or raised
VARIABLES soup, tpc, table_div, stats_table, hidx, tret

\* get_all_players: the argument, the position in the function, its locals
\* (letter as an index into the alphabet), what it returned or raised, the
\* delays, requests and per-letter reports issued so far, and whether the csv
\* file was written
VARIABLES save_results, ppc, letter, page, headers, raw_data, ridx, df_list,
          pret, trace, csv

tvars == <<soup, tpc, table_div, stats_table, hidx, tret>>

pvars == <<save_results, ppc, letter, page, headers, raw_data, ridx, df_list,
           pret, trace, csv>>

vars == <<tvars, pvars>>

None == <<>>

Some(x) == <<x>>

(***************************************************************************)
(* Bounds of the documents handed to get_table.                            *)
(***************************************************************************)
MaxCols == 2

MaxBodyRows == 2

MaxComments == 1

Texts == {"A", "B"}

(***************************************************************************)
(* get_table: the documents.  A container (the div) has an optional thead  *)
(* (a sequence of header cells [key, text]) and an optional tbody (a       *)
(* sequence of rows, each a sequence of cells [tag, key, val]).            *)
(***************************************************************************)
SeqsUpTo(S, n) == UNION {[1..k -> S] : k \in 0..n}

Reverse(s) == [i \in 1..Len(s) |-> s[Len(s) + 1 - i]]

RECURSIVE Ascending(_)
Ascending(S) ==
    IF S = {} THEN <<>>
    ELSE LET m == CHOOSE x \in S : \A y \in S : x <= y
         IN  <<m>> \o Ascending(S \ {m})

\* the tag the site gives the body cell of column k: th for the leftmost
ConvTag(k) == IF k = 1 THEN "th" ELSE "td"

\* body row number r holding one cell for each key of order, the value of a
\* cell naming its row and its key; allTd gives the leftmost column's cell
\* the tag td as well
BodyRow(r, order, allTd) ==
    [j \in 1..Len(order) |->
        [tag |-> IF allTd THEN "td" ELSE ConvTag(order[j]),
         key |-> order[j],
         val |-> <<r, order[j]>>]]

\* the shapes of a body row under n header cells: the keys it holds, whether
\* its cells stand in reversed order, whether its cells are all td
RowShapes(n) ==
    {sh \in (SUBSET (1..n)) \X BOOLEAN \X BOOLEAN :
        /\ sh[2] => Cardinality(sh[1]) >= 2
        /\ sh[3] => 1 \in sh[1]}

RowOf(r, sh) ==
    BodyRow(r, IF sh[2] THEN Reverse(Ascending(sh[1])) ELSE Ascending(sh[1]), sh[3])

BodyOf(shs) == [r \in 1..Len(shs) |-> RowOf(r, shs[r])]

TheadOf(t) == [i \in 1..Len(t) |-> [key |-> i, text |-> t[i]]]

\* the containers that documents carry inside a comment
SampleThead == TheadOf(<<"A", "B">>)

HiddenContainers ==
    {[thead |-> Some(SampleThead),
      tbody |-> Some(<<BodyRow(1, <<2, 1>>, FALSE)>>)],
     [thead |-> Some(SampleThead),
      tbody |-> Some(<<BodyRow(1, <<1, 2>>, FALSE), BodyRow(2, <<2, 1>>, FALSE)>>)],
     [thead |-> Some(SampleThead), tbody |-> None]}

\* a comment node: whether its text contains div_id, and the div with that id
\* that parsing its text yields (if any)
Comments ==
    {[hasId |-> FALSE, div |-> None], [hasId |-> TRUE, div |-> None]}
    \cup {[hasId |-> TRUE, div |-> Some(c)] : c \in HiddenContainers}

\* a document: the div with id div_id (if any), the number of text nodes that
\* are not comments outside that div, and the comment nodes
Direct(thead, tbody) ==
    [div |-> Some([thead |-> thead, tbody |-> tbody]), text |-> 0, comments |-> <<>>]

Indirect(t, cs) == [div |-> None, text |-> t, comments |-> cs]

(***************************************************************************)
(* get_table: the values returned or raised.                               *)
(***************************************************************************)
ReturnNone == [kind |-> "None", exc |-> "", table |-> <<>>]

ReturnFrame(t) == [kind |-> "DataFrame", exc |-> "", table |-> t]

Raise(e) == [kind |-> "raise", exc |-> e, table |-> <<>>]

\* the name Comment is used at line 91; lines 1-8 import only BeautifulSoup
\* from bs4, so the name is unbound
CommentImported == FALSE

\* soup.find("div", id=div_id)
FindDiv(s) == s.div

\* the string nodes find_all(string=...) hands to the lambda of line 91
StringNodes(s) == s.text + Len(s.comments)

RECURSIVE CommentLoop(_)
CommentLoop(cs) ==
    IF cs = <<>> THEN None
    ELSE IF Head(cs).hasId /\ Head(cs).div # None THEN Head(cs).div
    ELSE CommentLoop(Tail(cs))

\* lines 91-96: the lambda is evaluated on every string node of the document
ScanComments(s) ==
    IF StringNodes(s) > 0 /\ ~CommentImported
    THEN [raised |-> TRUE, div |-> None]
    ELSE [raised |-> FALSE, div |-> CommentLoop(s.comments)]

\* line 98
Absent(d) == d = None \/ d[1].thead = None \/ d[1].tbody = None

\* row.find(tag, {"data-stat": key}): the first matching cell of the row
FindCellByPosition(row, tag, key) ==
    IF key <= Len(row) THEN Some(row[key]) ELSE None

FindCell(row, tag, key) ==
    LET hits == {j \in 1..Len(row) : row[j].tag = tag /\ row[j].key = key}
    IN  IF hits = {} THEN None
        ELSE Some(row[CHOOSE j \in hits : \A k \in hits : j <= k])

\* the loop over rows of lines 108-111 and 116-119: the list of cell texts,
\* or the AttributeError of None.get_text()
RECURSIVE ColumnSkippingMissing(_, _, _)
ColumnSkippingMissing(rows, tag, key) ==
    IF rows = <<>> THEN [raised |-> FALSE, vals |-> <<>>]
    ELSE LET c == FindCell(Head(rows), tag, key)
             rest == ColumnSkippingMissing(Tail(rows), tag, key)
         IN  IF c = None THEN rest
             ELSE [raised |-> FALSE, vals |-> <<c[1].val>> \o rest.vals]

RECURSIVE Column(_, _, _)
Column(rows, tag, key) ==
    IF rows = <<>> THEN [raised |-> FALSE, vals |-> <<>>]
    ELSE LET c == FindCell(Head(rows), tag, key)
         IN  IF c = None THEN [raised |-> TRUE, vals |-> <<>>]
             ELSE LET rest == Column(Tail(rows), tag, key)
                  IN  IF rest.raised THEN rest
                      ELSE [raised |-> FALSE, vals |-> <<c[1].val>> \o rest.vals]

\* stats_table[k] = v on a dict kept as a sequence of <<key, value>> pairs in
\* insertion order: an existing key keeps its place
DictSet(d, k, v) ==
    IF \E j \in 1..Len(d) : d[j][1] = k
    THEN [j \in 1..Len(d) |-> IF d[j][1] = k THEN <<k, v>> ELSE d[j]]
    ELSE Append(d, <<k, v>>)

DictHas(d, k) == \E j \in 1..Len(d) : d[j][1] = k

DictGet(d, k) == d[CHOOSE j \in 1..Len(d) : d[j][1] = k][2]

\* the tag of the body cells of header number i (lines 106 and 113)
CellTag(i) == IF i = 1 THEN "th" ELSE "td"

\* lines 101-121 run to completion from header number i on
RECURSIVE BuildFrom(_, _, _, _)
BuildFrom(hs, rows, i, table) ==
    IF i > Len(hs) THEN ReturnFrame(table)
    ELSE LET col == Column(rows, CellTag(i), hs[i].key)
         IN  IF col.raised THEN Raise("AttributeError")
             ELSE BuildFrom(hs, rows, i + 1, DictSet(table, hs[i].text, col.vals))

\* get_table(soup, div_id) as a function of the document
GetTable(s) ==
    LET scan == ScanComments(s)
        d == IF FindDiv(s) # None THEN FindDiv(s) ELSE scan.div
    IN  IF FindDiv(s) = None /\ scan.raised THEN Raise("NameError")
        ELSE IF Absent(d) THEN ReturnNone
        ELSE IF d[1].thead[1] = <<>> THEN Raise("IndexError")
        ELSE BuildFrom(d[1].thead[1], d[1].tbody[1], 1, <<>>)

(***************************************************************************)
(* get_table: the state machine.                                           *)
(***************************************************************************)
\* get_all_players before it is called
PlayersIdle ==
    /\ save_results = FALSE
    /\ ppc = "idle"
    /\ letter = 1
    /\ page = None
    /\ headers = <<>>
    /\ raw_data = <<>>
    /\ ridx = 1
    /\ df_list = <<>>
    /\ pret = [kind |-> "None", exc |-> "", columns |-> <<>>, rows |-> <<>>]
    /\ trace = <<>>
    /\ csv = FALSE

TableInit ==
    /\ PlayersIdle
    /\ \/ \E t \in SeqsUpTo(Texts, MaxCols) : \E m \in 0..MaxBodyRows :
             \E shs \in [1..m -> RowShapes(Len(t))] :
                soup = Direct(Some(TheadOf(t)), Some(BodyOf(shs)))
       \/ \E t \in SeqsUpTo(Texts, MaxCols) : soup = Direct(Some(TheadOf(t)), None)
       \/ \E m \in 0..MaxBodyRows : \E shs \in [1..m -> RowShapes(1)] :
             soup = Direct(None, Some(BodyOf(shs)))
       \/ soup = Direct(None, None)
       \/ \E t \in 0..1 : \E cs \in SeqsUpTo(Comments, MaxComments) :
             soup = Indirect(t, cs)
    /\ tpc = "find"
    /\ table_div = None
    /\ stats_table = <<>>
    /\ hidx = 1
    /\ tret = ReturnNone

\* line 87
TFind ==
    /\ tpc = "find"
    /\ table_div' = FindDiv(soup)
    /\ tpc' = IF FindDiv(soup) = None THEN "scan" ELSE "check"
    /\ UNCHANGED <<soup, stats_table, hidx, tret>>
    /\ UNCHANGED pvars

\* lines 90-96
TScan ==
    /\ tpc = "scan"
    /\ LET scan == ScanComments(soup)
       IN  IF scan.raised
           THEN /\ tret' = Raise("NameError")
                /\ tpc' = "done"
                /\ UNCHANGED table_div
           ELSE /\ table_div' = scan.div
                /\ tpc' = "check"
                /\ UNCHANGED tret
    /\ UNCHANGED <<soup, stats_table, hidx>>
    /\ UNCHANGED pvars

\* lines 98-104
TCheck ==
    /\ tpc = "check"
    /\ IF Absent(table_div)
       THEN /\ tret' = ReturnNone
            /\ tpc' = "done"
       ELSE /\ tpc' = "first"
            /\ UNCHANGED tret
    /\ stats_table' = <<>>
    /\ UNCHANGED <<soup, table_div, hidx>>
    /\ UNCHANGED pvars

Headers == table_div[1].thead[1]

Rows == table_div[1].tbody[1]

\* lines 106-111
TFirstColumn ==
    /\ tpc = "first"
    /\ IF Headers = <<>>
       THEN /\ tret' = Raise("IndexError")
            /\ tpc' = "done"
            /\ UNCHANGED <<stats_table, hidx>>
       ELSE LET col == Column(Rows, "th", Headers[1].key)
            IN  IF col.raised
                THEN /\ tret' = Raise("AttributeError")
                     /\ tpc' = "done"
                     /\ UNCHANGED <<stats_table, hidx>>
                ELSE /\ stats_table' = DictSet(stats_table, Headers[1].text, col.vals)
                     /\ hidx' = 2
                     /\ tpc' = "rest"
                     /\ UNCHANGED tret
    /\ UNCHANGED <<soup, table_div>>
    /\ UNCHANGED pvars

\* lines 113-119, one header cell of headers[1:]
TNextColumn ==
    /\ tpc = "rest"
    /\ hidx <= Len(Headers)
    /\ LET col == Column(Rows, "td", Headers[hidx].key)
       IN  IF col.raised
           THEN /\ tret' = Raise("AttributeError")
                /\ tpc' = "done"
                /\ UNCHANGED <<stats_table, hidx>>
           ELSE /\ stats_table' = DictSet(stats_table, Headers[hidx].text, col.vals)
                /\ hidx' = hidx + 1
                /\ UNCHANGED <<tpc, tret>>
    /\ UNCHANGED <<soup, table_div>>
    /\ UNCHANGED pvars

\* line 121
TReturn ==
    /\ tpc = "rest"
    /\ hidx > Len(Headers)
    /\ tret' = ReturnFrame(stats_table)
    /\ tpc' = "done"
    /\ UNCHANGED <<soup, table_div, stats_table, hidx>>
    /\ UNCHANGED pvars

TableNext == TFind \/ TScan \/ TCheck \/ TFirstColumn \/ TNextColumn \/ TReturn

SpecTable == TableInit /\ [][TableNext]_vars

(***************************************************************************)
(* get_table: the claims.                                                  *)
(***************************************************************************)
Perms(n) == {p \in [1..n -> 1..n] : \A a, b \in 1..n : p[a] = p[b] => a = b}

PermuteRow(row, p) == [j \in 1..Len(row) |-> row[p[j]]]

\* the documents obtained from s by reordering the cells inside its body rows
Reordered(s) ==
    LET c == s.div[1]
        rows == c.tbody[1]
        n == Len(c.thead[1])
    IN  {[s EXCEPT !.div = Some([c EXCEPT !.tbody =
                        Some([r \in 1..Len(rows) |-> PermuteRow(rows[r], ps[r])])])] :
            ps \in [1..Len(rows) -> Perms(n)]}

\* every body row holds exactly one cell per header key, the first header's
\* as a th and the others' as td
OneCellPerHeader(c) ==
    LET hs == c.thead[1]
        rows == c.tbody[1]
    IN  \A r \in 1..Len(rows) :
            /\ Len(rows[r]) = Len(hs)
            /\ \A i \in 1..Len(hs) :
                  \E j \in 1..Len(rows[r]) :
                      rows[r][j].tag = CellTag(i) /\ rows[r][j].key = hs[i].key

\* the text of the cell of a row that carries the key
ValueOf(row, key) == row[CHOOSE j \in 1..Len(row) : row[j].key = key].val

\* header number i has the value of every row's cell with its key in the
\* column named by its text
AlignedAt(c, t, i) ==
    LET hs == c.thead[1]
        rows == c.tbody[1]
    IN  /\ DictHas(t, hs[i].text)
        /\ DictGet(t, hs[i].text) = [r \in 1..Len(rows) |-> ValueOf(rows[r], hs[i].key)]

C1Case ==
    /\ tpc = "done"
    /\ soup.div # None
    /\ ~Absent(soup.div)
    /\ soup.div[1].thead[1] # <<>>
    /\ OneCellPerHeader(soup.div[1])

\* C1 as stated: on a document whose rows each hold one cell per header key,
\* reordering the cells inside the body rows leaves the returned table
\* unchanged, and every header cell's values stand in the column of that
\* header cell.
C1_AlignedEveryHeader ==
    C1Case =>
        /\ tret.kind = "DataFrame"
        /\ \A s \in Reordered(soup) : GetTable(s) = tret
        /\ \A i \in 1..Len(soup.div[1].thead[1]) :
              AlignedAt(soup.div[1], tret.table, i)

\* C1 amended: on a document whose rows each hold one cell per header key,
\* reordering the cells inside the body rows leaves the returned table
\* unchanged, and the values of every header cell whose visible text no later
\* header cell repeats stand in the column named by that text.
C1_AlignedByKey ==
    C1Case =>
        /\ tret.kind = "DataFrame"
        /\ \A s \in Reordered(soup) : GetTable(s) = tret
        /\ \A i \in 1..Len(soup.div[1].thead[1]) :
              (\A j \in (i + 1)..Len(soup.div[1].thead[1]) :
                  soup.div[1].thead[1][j].text # soup.div[1].thead[1][i].text)
              => AlignedAt(soup.div[1], tret.table, i)

\* two columns, two rows, the second row's cells in reversed physical order
C1_Witness ==
    /\ C1Case
    /\ tret.kind = "DataFrame"
    /\ Len(tret.table) = 2
    /\ Len(soup.div[1].tbody[1]) = 2
    /\ soup.div[1].tbody[1][1][1].key = 1
    /\ soup.div[1].tbody[1][2][1].key = 2

\* C2: a document with the identifier neither as a div id nor inside any
\* comment makes get_table return None, never raise.
C2_AbsentReturnsNone ==
    (/\ tpc = "done"
     /\ soup.div = None
     /\ \A j \in 1..Len(soup.comments) : ~soup.comments[j].hasId)
    => tret = ReturnNone

\* C3: a document whose container appears only inside a comment yields what
\* get_table returns when that container stands directly in the document.
C3_CommentSameAsDirect ==
    (/\ tpc = "done"
     /\ soup.div = None
     /\ CommentLoop(soup.comments) # None)
    => tret = GetTable([div |-> CommentLoop(soup.comments),
                        text |-> 0, comments |-> <<>>])

\* some body row lacks the cell (th for the first header, td for the others)
\* carrying the key of some header cell
CellMissing(c) ==
    \E i \in 1..Len(c.thead[1]) : \E r \in 1..Len(c.tbody[1]) :
        \A j \in 1..Len(c.tbody[1][r]) :
            ~(c.tbody[1][r][j].tag = CellTag(i) /\ c.tbody[1][r][j].key = c.thead[1][i].key)

\* C9: every column of a returned table has one value per body row, each the
\* text of a cell of that row, and when a body row lacks the cell of some
\* header key the call raises instead of returning a table.
C9_NoShortColumn ==
    /\ (tpc = "done" /\ tret.kind = "DataFrame") =>
          \A j \in 1..Len(tret.table) :
              /\ Len(tret.table[j][2]) = Len(Rows)
              /\ \A r \in 1..Len(Rows) :
                    \E k \in 1..Len(Rows[r]) : tret.table[j][2][r] = Rows[r][k].val
    /\ (tpc = "done" /\ ~Absent(table_div) /\ CellMissing(table_div[1])) =>
          tret = Raise("AttributeError")

\* the first row holds every cell, the second lacks one
C9_Witness ==
    /\ tpc = "done"
    /\ ~Absent(table_div)
    /\ Len(Rows) = 2
    /\ Len(Headers) = 2
    /\ Len(Rows[1]) = 2
    /\ Rows[1][1].tag # Rows[1][2].tag
    /\ Len(Rows[2]) = 1
    /\ tret = Raise("AttributeError")

(***************************************************************************)
(* get_all_players: the pages.  A page is the sequence of its tr elements; *)
(* the first is kept as its text, the others as rows with their th cells   *)
(* (text, hrefs of the a elements, number of strong elements) and the text *)
(* of their td cells.                                                      *)
(***************************************************************************)
\* the rows get_all_players may hold at once
MaxRows == 2

\* string.ascii_lowercase
Alphabet == <<"a", "b", "c", "d", "e", "f", "g", "h", "i", "j", "k", "l", "m",
              "n", "o", "p", "q", "r", "s", "t", "u", "v", "w", "x", "y", "z">>

NL == "\n"

HeaderTexts ==
    {<<"P", NL, "Y">>,
     <<NL, "P", NL, "Y", NL>>,
     <<"P", NL, "Y", NL, "Z">>}

Href1 == <<"/", "x">>

Href2 == <<"/", "y">>

Tr(name, hrefs, strong, tds) ==
    [th |-> <<[text |-> name, a |-> hrefs, strong |-> strong]>>, td |-> tds]

\* an active hall-of-fame player, a plain player without a link, a player with
\* several '*', links and strong elements and one td too many, a bare '*', a
\* row with an empty name cell, and a row without th
TrRows ==
    {Tr(<<"a", "*">>, <<Href1>>, 1, <<<<"1">>>>),
     Tr(<<"a">>, <<>>, 0, <<<<"1">>>>),
     Tr(<<"a", "*", "*">>, <<Href1, Href2>>, 2, <<<<"1">>, <<"2">>>>),
     Tr(<<"*">>, <<Href1>>, 0, <<<<"1">>>>),
     Tr(<<>>, <<Href1>>, 0, <<<<"1">>>>),
     [th |-> <<>>, td |-> <<<<"1">>>>]}

\* the pages a request may return when n more rows may be held
Pages(n) ==
    {[tr |-> <<>>]}
    \cup {[tr |-> <<h>> \o rows] : h \in HeaderTexts, rows \in SeqsUpTo(TrRows, n)}

(***************************************************************************)
(* get_all_players: str methods and the values returned or raised.         *)
(***************************************************************************)
PyInt(n) == <<"int", n>>

PyBool(b) == <<"bool", IF b THEN 1 ELSE 0>>

PyNone == <<"None">>

IsSpace(c) == c = NL

\* str.strip()
RECURSIVE LStrip(_)
LStrip(str) ==
    IF str # <<>> /\ IsSpace(Head(str)) THEN LStrip(Tail(str)) ELSE str

Strip(str) == Reverse(LStrip(Reverse(LStrip(str))))

\* str.split("\n")
RECURSIVE SplitFrom(_, _)
SplitFrom(str, cur) ==
    IF str = <<>> THEN <<cur>>
    ELSE IF Head(str) = NL THEN <<cur>> \o SplitFrom(Tail(str), <<>>)
    ELSE SplitFrom(Tail(str), Append(cur, Head(str)))

Split(str) == SplitFrom(str, <<>>)

LowerChar(c) ==
    CASE c = "P" -> "p"
      [] c = "Y" -> "y"
      [] c = "Z" -> "z"
      [] OTHER -> c

\* str.lower()
Lower(str) == [j \in 1..Len(str) |-> LowerChar(str[j])]

\* str.rstrip("*")
RECURSIVE RStripStar(_)
RStripStar(str) ==
    IF str # <<>> /\ str[Len(str)] = "*"
    THEN RStripStar(SubSeq(str, 1, Len(str) - 1))
    ELSE str

PReturned(k, c, r) == [kind |-> k, exc |-> "", columns |-> c, rows |-> r]

PRaise(e) == [kind |-> "raise", exc |-> e, columns |-> <<>>, rows |-> <<>>]

\* pd.DataFrame()
EmptyFrame == PReturned("DataFrame", <<>>, <<>>)

\* the tuple ([], []) of line 33, its two items held as columns and rows
PairOfEmptyLists == PReturned("tuple", <<>>, <<>>)

\* line 54
IsActive(th) == PyInt(th.strong)

\* lines 48-56 on one row: the list appended to raw_data, or the IndexError of
\* find_all("th")[0] on a row without th and of name[-1] on an empty name
ScrapeRow(row) ==
    IF row.th = <<>> THEN [raised |-> TRUE, list |-> <<>>]
    ELSE LET th == row.th[1]
             name == th.text
             stats == row.td
             link == IF Len(th.a) = 1 THEN th.a[1] ELSE <<>>
         IN  IF name = <<>> THEN [raised |-> TRUE, list |-> <<>>]
             ELSE [raised |-> FALSE,
                   list |-> <<RStripStar(name)>> \o stats
                            \o <<link, IsActive(th), PyBool(name[Len(name)] = "*")>>]

StrUrl == <<"u", "r", "l">>

StrIsActive == <<"i", "s", "_", "a", "c", "t", "i", "v", "e">>

StrIsHof == <<"i", "s", "_", "h", "o", "f">>

\* line 65
Columns(hs) == [j \in 1..Len(hs) |-> Lower(hs[j])] \o <<StrUrl, StrIsActive, StrIsHof>>

Max(S) == CHOOSE x \in S : \A y \in S : y <= x

\* pd.DataFrame(data, columns=cols) on a list of lists: shorter lists are
\* padded with None up to the longest, and a longest list of another length
\* than cols raises ValueError
MakeFrame(data, cols) ==
    IF data = <<>> THEN PReturned("DataFrame", cols, <<>>)
    ELSE LET width == Max({Len(data[k]) : k \in 1..Len(data)})
         IN  IF width # Len(cols) THEN PRaise("ValueError")
             ELSE PReturned("DataFrame", cols,
                    [k \in 1..Len(data) |->
                        [j \in 1..width |->
                            IF j <= Len(data[k]) THEN data[k][j] ELSE PyNone]])

(***************************************************************************)
(* get_all_players: the state machine.                                     *)
(***************************************************************************)
TableIdle ==
    /\ soup = Indirect(0, <<>>)
    /\ tpc = "idle"
    /\ table_div = None
    /\ stats_table = <<>>
    /\ hidx = 1
    /\ tret = ReturnNone

PlayersInit ==
    /\ TableIdle
    /\ save_results \in BOOLEAN
    /\ ppc = "sleep"
    /\ letter = 1
    /\ page = None
    /\ headers = <<>>
    /\ raw_data = <<>>
    /\ ridx = 1
    /\ df_list = <<>>
    /\ pret = PReturned("None", <<>>, <<>>)
    /\ trace = <<>>
    /\ csv = FALSE

\* lines 24-27
PSleep ==
    /\ ppc = "sleep"
    /\ trace' = Append(trace, <<"sleep", Alphabet[letter]>>)
    /\ ppc' = "get"
    /\ UNCHANGED <<save_results, letter, page, headers, raw_data, ridx, df_list,
                   pret, csv>>
    /\ UNCHANGED tvars

\* lines 29-30 and 34: the request succeeds
PGetOk ==
    /\ ppc = "get"
    /\ \E p \in Pages(MaxRows - Len(df_list)) : page' = Some(p)
    /\ trace' = Append(trace, <<"get", Alphabet[letter]>>)
    /\ ppc' = "parse"
    /\ UNCHANGED <<save_results, letter, headers, raw_data, ridx, df_list, pret, csv>>
    /\ UNCHANGED tvars

\* lines 29-33: the request fails and is not tried again
PGetFailRetry ==
    /\ ppc = "get"
    /\ trace' = Append(trace, <<"get", Alphabet[letter]>>)
    /\ UNCHANGED <<save_results, ppc, letter, page, headers, raw_data, ridx,
                   df_list, pret, csv>>
    /\ UNCHANGED tvars

PGetFail ==
    /\ ppc = "get"
    /\ trace' = Append(trace, <<"get", Alphabet[letter]>>)
    /\ page' = None
    /\ pret' = PairOfEmptyLists
    /\ ppc' = "ret33"
    /\ UNCHANGED <<save_results, letter, headers, raw_data, ridx, df_list, csv>>
    /\ UNCHANGED tvars

\* lines 37-40
PNoRowsKeepsRows ==
    /\ ppc = "parse"
    /\ page[1].tr = <<>>
    /\ pret' = PReturned("DataFrame", <<>>, df_list)
    /\ ppc' = "ret40"
    /\ UNCHANGED <<save_results, letter, page, headers, raw_data, ridx, df_list,
                   trace, csv>>
    /\ UNCHANGED tvars

PNoRows ==
    /\ ppc = "parse"
    /\ page[1].tr = <<>>
    /\ pret' = EmptyFrame
    /\ ppc' = "ret40"
    /\ UNCHANGED <<save_results, letter, page, headers, raw_data, ridx, df_list,
                   trace, csv>>
    /\ UNCHANGED tvars

\* lines 37-38 and 42-45
PHeader ==
    /\ ppc = "parse"
    /\ page[1].tr # <<>>
    /\ headers' = Split(Strip(page[1].tr[1]))
    /\ raw_data' = <<>>
    /\ ridx' = 2
    /\ ppc' = "rows"
    /\ UNCHANGED <<save_results, letter, page, df_list, pret, trace, csv>>
    /\ UNCHANGED tvars

\* lines 46-56, one row of tr[1:]
PRow ==
    /\ ppc = "rows"
    /\ ridx <= Len(page[1].tr)
    /\ LET r == ScrapeRow(page[1].tr[ridx])
       IN  IF r.raised
           THEN /\ pret' = PRaise("IndexError")
                /\ ppc' = "raised"
                /\ UNCHANGED <<raw_data, ridx>>
           ELSE /\ raw_data' = Append(raw_data, r.list)
                /\ ridx' = ridx + 1
                /\ UNCHANGED <<pret, ppc>>
    /\ UNCHANGED <<save_results, letter, page, headers, df_list, trace, csv>>
    /\ UNCHANGED tvars

\* lines 58-61 and the next turn of the loop of line 24
PEndLetter ==
    /\ ppc = "rows"
    /\ ridx > Len(page[1].tr)
    /\ trace' = Append(trace, <<"scraped", Alphabet[letter]>>)
    /\ df_list' = df_list \o raw_data
    /\ IF letter < Len(Alphabet)
       THEN /\ letter' = letter + 1
            /\ ppc' = "sleep"
       ELSE /\ ppc' = "frame"
            /\ UNCHANGED letter
    /\ UNCHANGED <<save_results, page, headers, raw_data, ridx, pret, csv>>
    /\ UNCHANGED tvars

\* lines 63-66
PFrame ==
    /\ ppc = "frame"
    /\ pret' = MakeFrame(df_list, Columns(headers))
    /\ ppc' = IF MakeFrame(df_list, Columns(headers)).kind = "raise"
              THEN "raised" ELSE "save"
    /\ UNCHANGED <<save_results, letter, page, headers, raw_data, ridx, df_list,
                   trace, csv>>
    /\ UNCHANGED tvars

\* lines 67-71
PSaveReturn ==
    /\ ppc = "save"
    /\ csv' = save_results
    /\ ppc' = "ret71"
    /\ UNCHANGED <<save_results, letter, page, headers, raw_data, ridx, df_list,
                   pret, trace>>
    /\ UNCHANGED tvars

PlayersNext ==
    \/ PSleep
    \/ PGetOk
    \/ PGetFail
    \/ PNoRows
    \/ PHeader
    \/ PRow
    \/ PEndLetter
    \/ PFrame
    \/ PSaveReturn

SpecPlayers == PlayersInit /\ [][PlayersNext]_vars

(***************************************************************************)
(* get_all_players: the claims.                                            *)
(***************************************************************************)
\* C4: when the request of a letter fails, get_all_players returns an empty
\* table holding none of the rows of earlier letters.
C4_FailureReturnsEmptyFrame ==
    ppc = "ret33" => pret = EmptyFrame

\* what the trace holds once the request of the current letter is issued and
\* nothing after it
StoppedAtRequest == Len(trace) = 3 * (letter - 1) + 2

\* C5: when the page of a letter has no tr, get_all_players returns an empty
\* table at once, without raising and without the rows of earlier letters.
C5_NoRowsReturnsEmptyFrame ==
    /\ (ppc # "parse" /\ page # None /\ page[1].tr = <<>>) => ppc = "ret40"
    /\ ppc = "ret40" => (pret = EmptyFrame /\ StoppedAtRequest)

\* the empty page comes after a letter that gave rows
C5_Witness ==
    /\ ppc = "ret40"
    /\ letter > 1
    /\ df_list # <<>>
    /\ pret = EmptyFrame

EndsWithStar(str) == str # <<>> /\ str[Len(str)] = "*"

\* the name without its last character when that is '*'
RStripOneStar(str) ==
    IF EndsWithStar(str) THEN SubSeq(str, 1, Len(str) - 1) ELSE str

\* row number k of the current page has been through lines 48-56
Scraped(k) ==
    \/ k < ridx
    \/ k = ridx /\ ppc = "raised" /\ pret.exc = "IndexError"

\* C6: every row with a name cell gives a list whose is_hof tells whether the
\* name ends in '*' and whose name is the name without the trailing '*'
\* (whether one or all of several), unchanged when there is none.
C6_HofStripping ==
    ppc \in {"rows", "raised"} =>
        \A k \in 2..Len(page[1].tr) :
            (Scraped(k) /\ page[1].tr[k].th # <<>>) =>
                /\ k - 1 <= Len(raw_data)
                /\ LET name == page[1].tr[k].th[1].text
                       out == raw_data[k - 1]
                   IN  IF EndsWithStar(name)
                       THEN /\ out[Len(out)] = PyBool(TRUE)
                            /\ out[1] \in {RStripOneStar(name), RStripStar(name)}
                       ELSE /\ out[Len(out)] = PyBool(FALSE)
                            /\ out[1] = name

\* Python's == on int and bool
PyEq(a, b) == a[2] = b[2]

\* the boolean telling whether the cell holds a strong element
IsActiveAsBool(th) == PyBool(th.strong >= 1)

\* C7: is_active of every row equals the boolean telling whether the name
\* cell holds at least one strong element.
C7_IsActiveBoolean ==
    ppc = "rows" =>
        \A k \in 2..(ridx - 1) :
            LET out == raw_data[k - 1]
            IN  PyEq(out[Len(out) - 1], IsActiveAsBool(page[1].tr[k].th[1]))

\* C8: every row has len(headers) - 1 stats, so that its list matches the
\* columns of the final table position by position.
C8_StatsMatchHeader ==
    /\ ppc = "rows" =>
          \A k \in 1..Len(raw_data) : Len(raw_data[k]) - 4 = Len(headers) - 1
    /\ ppc \in {"frame", "save", "ret71"} =>
          \A k \in 1..Len(df_list) : Len(df_list[k]) = Len(Columns(headers))

\* the events of a run in which no request fails and every page has rows
IdealEvent(k) ==
    LET l == Alphabet[((k - 1) \div 3) + 1]
    IN  CASE (k - 1) % 3 = 0 -> <<"sleep", l>>
          [] (k - 1) % 3 = 1 -> <<"get", l>>
          [] OTHER -> <<"scraped", l>>

\* C10: the requests go out in letter order, one per letter, each right after
\* one delay; nothing is issued after the letter whose request fails or whose
\* page has no rows; the csv file is written only when save_results is set and
\* all 26 letters were fetched with rows.
C10_RequestOrder ==
    /\ Len(trace) <= 3 * Len(Alphabet)
    /\ \A k \in 1..Len(trace) : trace[k] = IdealEvent(k)
    /\ ppc \in {"ret33", "ret40"} => StoppedAtRequest
    /\ csv => /\ save_results
              /\ Len(trace) = 3 * Len(Alphabet)
              /\ pret.kind = "DataFrame"

\* a whole run that ends with the file written
C10_Witness ==
    /\ ppc = "ret71"
    /\ csv
    /\ Len(trace) = 3 * Len(Alphabet)
    /\ Len(df_list) = 2

====
